---- MODULE Spec2Model ----
(***************************************************************************)
(* Playback queue and transport state machine of the AudioPlayer class     *)
(* (src/unnamed/part_000, lines 341-739), together with the HTML media     *)
(* element it drives (the "Media Sink") and the Web Audio context it       *)
(* resumes.  Indices are 0-based as in the source; a JavaScript array a is *)
(* a sequence and a[i] is At(a, i).                                        *)
(***************************************************************************)
EXTENDS Integers, Sequences, FiniteSets, TLC

\* ------------------------------------------------------------------ bounds
MaxLen == 2          \* longest queue the host builds
MaxPending == 2      \* async playIndex()/play() calls in flight at once
MaxTasks == 2        \* media element tasks queued and not yet dispatched

\* ------------------------------------------------------------------ tracks
\* a track is { id, streamUrl }; Null stands for JavaScript null
Null == [id |-> 0, streamUrl |-> "null"]
TrackA == [id |-> 1, streamUrl |-> "a"]
TrackA2 == [id |-> 1, streamUrl |-> "b"]   \* another track carrying the same id
TrackN == [id |-> 2, streamUrl |-> ""]     \* a track without a stream URL
Tracks == {TrackA, TrackA2, TrackN}

RECURSIVE SeqsUpTo(_, _)
SeqsUpTo(S, n) ==
    IF n = 0 THEN {<<>>}
    ELSE LET shorter == SeqsUpTo(S, n - 1)
         IN  shorter \cup {Append(q, x) : q \in {r \in shorter : Len(r) = n - 1}, x \in S}

TrackLists == SeqsUpTo(Tracks, MaxLen)

\* a[i]; outside the array JavaScript yields undefined, which Null stands for too
At(a, i) == IF i + 1 \in DOMAIN a THEN a[i + 1] ELSE Null

\* Array.prototype.findIndex(t => t.id === id): first match, or -1
RECURSIVE FindFrom(_, _, _)
FindFrom(a, id, i) ==
    IF i >= Len(a) THEN -1
    ELSE IF At(a, i).id = id THEN i
    ELSE FindFrom(a, id, i + 1)

FindIndex(a, id) == FindFrom(a, id, 0)

\* [a[i], a[j]] = [a[j], a[i]]
Swap(a, i, j) == [a EXCEPT ![i + 1] = a[j + 1], ![j + 1] = a[i + 1]]

\* the values Math.floor(Math.random() * (i + 1)) takes, one per loop round i,
\* when an array of n elements is shuffled
RandomDraws(n) == {r \in [1..(n - 1) -> 0..(n - 1)] : \A i \in 1..(n - 1) : r[i] <= i}

\* a plausible slip: the element is copied to its new place, not exchanged
RECURSIVE ShuffleCopyFrom(_, _, _)
ShuffleCopyFrom(array, rnd, i) ==
    IF i > 0 THEN ShuffleCopyFrom([array EXCEPT ![i + 1] = array[rnd[i] + 1]], rnd, i - 1)
    ELSE array

ShuffleArrayCopying(array, rnd) == ShuffleCopyFrom(array, rnd, Len(array) - 1)

\* _shuffleArray: for (i = length - 1; i > 0; i--) swap array[i], array[j]
RECURSIVE ShuffleFrom(_, _, _)
ShuffleFrom(array, rnd, i) ==
    IF i > 0 THEN ShuffleFrom(Swap(array, i, rnd[i]), rnd, i - 1)
    ELSE array

ShuffleArray(array, rnd) == ShuffleFrom(array, rnd, Len(array) - 1)

\* ------------------------------------------------------------------- state
VARIABLES
    queue,           \* this.queue: canonical ordering
    shuffledQueue,   \* this.shuffledQueue
    currentIndex,    \* this.currentIndex, -1 when no track is selected
    isPlaying,       \* this.isPlaying
    repeat,          \* this.repeat
    shuffle,         \* this.shuffle
    audioContext,    \* this.audioContext: "null", or its state
    analyser,        \* this.analyser: 0 for null, else the number of the context it taps
    contexts,        \* audio contexts created so far
    volume,          \* this.volume, in tenths
    audio,           \* this.audio: the media element (src, paused, ready, currentTime)
    pending,         \* playIndex()/play() calls suspended at an await, oldest first
    tasks            \* media element tasks queued and not yet dispatched, oldest first

vars == <<queue, shuffledQueue, currentIndex, isPlaying, repeat, shuffle,
          audioContext, analyser, contexts, volume, audio, pending, tasks>>

\* the player and its collaborators as one value, so that a method is an operator
\* from the value before the call to the value after it; out collects, in order,
\* the Sink commands the call issues and the notifier slots it fires
Player ==
    [queue |-> queue, shuffledQueue |-> shuffledQueue, currentIndex |-> currentIndex,
     isPlaying |-> isPlaying, repeat |-> repeat, shuffle |-> shuffle,
     audioContext |-> audioContext, analyser |-> analyser, contexts |-> contexts,
     volume |-> volume, audio |-> audio, pending |-> pending,
     tasks |-> tasks, out |-> <<>>]

Ev(e) == [e |-> e, t |-> Null]
EvT(e, t) == [e |-> e, t |-> t]
Emit(s, ev) == [s EXCEPT !.out = Append(@, ev)]

\* ------------------------------------------------------- the media element
\* ready: "empty" (no resource selected), "loading", "ready" (enough data to
\* play), "ended" (playback reached the end), "failed" (the resource could not
\* be loaded), "broken" (a decode error stopped playback)
ReadyStates == {"empty", "loading", "ready", "ended", "failed", "broken"}

\* positions a test tells apart: 0, the restart threshold of previous(), beyond
PreviousThreshold == 3
Positions == {0, PreviousThreshold, PreviousThreshold + 1}

\* the duration the element reports once it has the metadata of its resource;
\* before that, and after a failed load, it is NaN, which 0 stands for
TrackDuration == PreviousThreshold + 1
Duration(a) == IF a.ready \in {"ready", "ended", "broken"} THEN TrackDuration ELSE 0

\* volumes are counted in tenths: this.volume = 1.0 is VolumeScale
VolumeScale == 10

Restage(p, from, to) ==
    [k \in DOMAIN p |-> IF p[k].stage = from THEN [p[k] EXCEPT !.stage = to] ELSE p[k]]

\* this.audio.src = url: the element's load algorithm. A resource that was
\* selected is dropped: the element is paused without a pause event, the play
\* promises still pending are rejected, the position returns to 0.
SinkSetSrc(s, track) ==
    LET a == s.audio
        had == a.ready # "empty"
        a1 == [a EXCEPT !.src = track.streamUrl, !.ready = "loading",
                        !.paused = IF had THEN TRUE ELSE @,
                        !.currentTime = IF had THEN 0 ELSE @]
        p1 == IF had /\ ~a.paused THEN Restage(s.pending, "start", "rejected")
              ELSE s.pending
    IN  Emit([s EXCEPT !.audio = a1, !.pending = p1], EvT("load", track))

\* this.audio.play() awaited by the call c. Refused at once when the page may
\* not play or the resource failed to load; else the element leaves the paused
\* state (a play event is queued) and the promise is settled when playback starts.
SinkPlay(s, c, allowed) ==
    LET a == s.audio
        s0 == Emit(s, EvT("start", c.track))
    IN  IF ~allowed \/ a.ready = "failed"
        THEN [s0 EXCEPT !.pending = Append(@, [c EXCEPT !.stage = "rejected"])]
        ELSE LET rewind == a.ready = "ended"
                 a1 == [a EXCEPT !.paused = FALSE,
                                 !.ready = IF rewind THEN "ready" ELSE @,
                                 !.currentTime = IF rewind THEN 0 ELSE @]
                 can == a1.ready = "ready"
                 t1 == IF a.paused THEN Append(s.tasks, "play") ELSE s.tasks
                 t2 == IF can THEN Append(t1, "resolve") ELSE t1
                 p1 == Append(s.pending, [c EXCEPT !.stage = "start"])
                 p2 == IF can THEN Restage(p1, "start", "resolving") ELSE p1
             IN  [s0 EXCEPT !.audio = a1, !.tasks = t2, !.pending = p2]

\* this.audio.pause(): a playing element becomes paused, queues the pause event
\* and the rejection of the play promises still pending
SinkPause(s) ==
    LET s0 == Emit(s, Ev("pause"))
    IN  IF s.audio.paused THEN s0
        ELSE [s0 EXCEPT !.audio.paused = TRUE,
                        !.tasks = Append(@, "pause"),
                        !.pending = Restage(@, "start", "aborted")]

\* this.audio.currentTime = t: a seek within the resource the element holds; an
\* element that had reached the end is no longer at the end; an element without
\* a resource keeps t as the position it reports and starts from
SinkSeek(s, t) ==
    LET s0 == Emit(s, Ev("seek"))
    IN  IF s.audio.ready \in {"ready", "ended"}
        THEN [s0 EXCEPT !.audio.currentTime = t, !.audio.ready = "ready"]
        ELSE [s0 EXCEPT !.audio.currentTime = t]

\* ------------------------------------------------------------ AudioPlayer
\* a call of an async method, waiting at its await: "resume" for
\* audioContext.resume(), "start" for audio.play(); alone records that no other
\* call was in flight when it was made and no operation has been issued since
Call(s, kind, track, stage) ==
    [kind |-> kind, track |-> track, stage |-> stage, alone |-> s.pending = <<>>]

getQueue(s) == IF s.shuffle THEN s.shuffledQueue ELSE s.queue

getCurrentTrack(s) ==
    LET q == getQueue(s)
    IN  IF s.currentIndex >= 0 /\ s.currentIndex < Len(q) THEN At(q, s.currentIndex)
        ELSE Null

\* a plausible slip: the state of the audio context is never looked at
SuspendedIgnored(s) == FALSE

Suspended(s) == s.audioContext = "suspended"

\* a plausible slip: the bounds check admits index == length
IndexInRangeInclusive(q, index) == ~(index < 0 \/ index > Len(q))

\* a plausible slip: the bounds check forgets negative indices
IndexInRangeUnsigned(q, index) == ~(index >= Len(q))

\* if (index < 0 || index >= queue.length) return;

IndexInRange(q, index) == ~(index < 0 \/ index >= Len(q))

\* a plausible slip: the selection is left to the completion of the call
selectNothing(s, index) == s

\* this.currentIndex = index
select(s, index) == [s EXCEPT !.currentIndex = index]

\* a plausible slip: a track without a stream URL is not selected
playIndexSkippingUnplayable(s, index, allowed) ==
    LET q == getQueue(s)
        track == At(q, index)
    IN  IF ~IndexInRange(q, index) THEN s
        ELSE IF track # Null /\ track.streamUrl # ""
             THEN LET s2 == SinkSetSrc(select(s, index), track)
                  IN  IF Suspended(s2)
                      THEN [s2 EXCEPT !.pending =
                               Append(@, Call(s, "playIndex", track, "resume"))]
                      ELSE SinkPlay(s2, Call(s, "playIndex", track, "start"), allowed)
             ELSE s

\* reading streamUrl of undefined throws: the call ends there
playIndex(s, index, allowed) ==
    LET q == getQueue(s)
    IN  IF ~IndexInRange(q, index) THEN s
        ELSE LET s1 == select(s, index)
                 track == At(q, index)
             IN  IF track # Null /\ track.streamUrl # ""
                 THEN LET s2 == SinkSetSrc(s1, track)
                      IN  IF Suspended(s2)
                          THEN [s2 EXCEPT !.pending =
                                   Append(@, Call(s, "playIndex", track, "resume"))]
                          ELSE SinkPlay(s2, Call(s, "playIndex", track, "start"), allowed)
                 ELSE s1

\* a plausible slip: play() starts from the first track whenever there is a queue
playFromFirst(s, allowed) ==
    IF Len(s.queue) > 0 THEN playIndex(s, 0, allowed)
    ELSE IF Suspended(s)
         THEN [s EXCEPT !.pending = Append(@, Call(s, "play", Null, "resume"))]
         ELSE SinkPlay(s, Call(s, "play", Null, "start"), allowed)

play(s, allowed) ==
    IF s.currentIndex < 0 /\ Len(s.queue) > 0 THEN playIndex(s, 0, allowed)
    ELSE IF Suspended(s)
         THEN [s EXCEPT !.pending = Append(@, Call(s, "play", Null, "resume"))]
         ELSE SinkPlay(s, Call(s, "play", Null, "start"), allowed)

\* a plausible slip: pause() records the state itself instead of waiting for the
\* pause event
pauseAssuming(s) == [SinkPause(s) EXCEPT !.isPlaying = FALSE]

pause(s) == SinkPause(s)

togglePlay(s, allowed) == IF s.isPlaying THEN pause(s) ELSE play(s, allowed)

\* a plausible slip: stop() also drops the selection
stopClearing(s) == [SinkSeek(SinkPause(s), 0) EXCEPT !.currentIndex = -1]

stop(s) == SinkSeek(SinkPause(s), 0)

\* a plausible slip: the last track is never reached
hasNextOffByOne(s) == s.currentIndex < Len(getQueue(s)) - 2

\* a plausible slip: without a selection there is no next track
hasNextOfSelection(s) == s.currentIndex >= 0 /\ s.currentIndex < Len(getQueue(s)) - 1

hasNext(s) == s.currentIndex < Len(getQueue(s)) - 1

hasPrevious(s) == s.currentIndex > 0

\* a plausible slip: next() wraps to the first track at the end of the queue
nextWrapping(s, allowed) ==
    IF hasNext(s) THEN playIndex(s, s.currentIndex + 1, allowed)
    ELSE playIndex(s, 0, allowed)

\* a plausible slip: next() skips a track
nextSkipping(s, allowed) == IF hasNext(s) THEN playIndex(s, s.currentIndex + 2, allowed) ELSE s

next(s, allowed) == IF hasNext(s) THEN playIndex(s, s.currentIndex + 1, allowed) ELSE s

\* a plausible slip: the threshold itself already restarts the track
previousAtThreshold(s, allowed) ==
    IF s.audio.currentTime >= PreviousThreshold THEN SinkSeek(s, 0)
    ELSE IF hasPrevious(s) THEN playIndex(s, s.currentIndex - 1, allowed)
    ELSE s

previous(s, allowed) ==
    IF s.audio.currentTime > PreviousThreshold THEN SinkSeek(s, 0)
    ELSE IF hasPrevious(s) THEN playIndex(s, s.currentIndex - 1, allowed)
    ELSE s

setRepeat(s, mode) == [s EXCEPT !.repeat = mode]

\* a JavaScript number: a finite value x, NaN, or an infinity
Number(x) == [kind |-> "finite", x |-> x]
NaN == [kind |-> "NaN", x |-> 0]
Infinity == [kind |-> "Infinity", x |-> 0]

isFinite(time) == time.kind = "finite"

\* a plausible slip: the time is assigned without the isFinite check
seekUnchecked(s, time) == SinkSeek(s, time.x)

seek(s, time) == IF isFinite(time) THEN SinkSeek(s, time.x) ELSE s

\* if (this.audio.duration): NaN and 0 are falsy
seekPercent(s, percent) ==
    IF Duration(s.audio) # 0 THEN SinkSeek(s, (percent * Duration(s.audio)) \div 100)
    ELSE s

Max(a, b) == IF a >= b THEN a ELSE b
Min(a, b) == IF a <= b THEN a ELSE b

\* a plausible slip: the volume is clamped from above only
setVolumeUnclampedBelow(s, v) ==
    LET clamped == Min(VolumeScale, v)
    IN  Emit([s EXCEPT !.volume = clamped, !.audio.volume = clamped], Ev("volume"))

\* this.volume = Math.max(0, Math.min(1, volume)); this.audio.volume = this.volume
setVolume(s, v) ==
    LET clamped == Max(0, Min(VolumeScale, v))
    IN  Emit([s EXCEPT !.volume = clamped, !.audio.volume = clamped], Ev("volume"))

getVolume(s) == s.volume

\* a plausible slip: the selection survives the replacement of the queue
setQueueKeepingIndex(s, tracks, rnd) ==
    [s EXCEPT !.queue = tracks, !.shuffledQueue = ShuffleArray(tracks, rnd)]

setQueue(s, tracks, rnd) ==
    [s EXCEPT !.queue = tracks,
              !.shuffledQueue = ShuffleArray(tracks, rnd),
              !.currentIndex = -1]

\* a plausible slip: the shuffled ordering is not regenerated
addToQueueStale(s, tracks, rnd) == [s EXCEPT !.queue = s.queue \o tracks]

addToQueue(s, tracks, rnd) ==
    LET q == s.queue \o tracks
    IN  [s EXCEPT !.queue = q, !.shuffledQueue = ShuffleArray(q, rnd)]

\* a plausible slip: the selection survives the clearing of the queue
clearQueueKeepingIndex(s) == [s EXCEPT !.queue = <<>>, !.shuffledQueue = <<>>]

\* a plausible slip: clearing the queue also stops the Sink
clearQueueStopping(s) ==
    SinkPause([s EXCEPT !.queue = <<>>, !.shuffledQueue = <<>>, !.currentIndex = -1])

clearQueue(s) == [s EXCEPT !.queue = <<>>, !.shuffledQueue = <<>>, !.currentIndex = -1]

\* a plausible slip: enabling shuffle selects position 0 even when nothing is
\* selected
toggleShuffleSelecting(s, rnd) ==
    LET s1 == [s EXCEPT !.shuffle = ~s.shuffle]
    IN  IF s1.shuffle
        THEN LET current == getCurrentTrack(s1)
                 sh == ShuffleArray(s1.queue, rnd)
                 idx == FindIndex(sh, current.id)
             IN  [s1 EXCEPT !.shuffledQueue = IF idx > 0 THEN Swap(sh, 0, idx) ELSE sh,
                            !.currentIndex = 0]
        ELSE LET current == getCurrentTrack(s1)
             IN  IF current # Null
                 THEN [s1 EXCEPT !.currentIndex = FindIndex(s1.queue, current.id)]
                 ELSE s1

toggleShuffle(s, rnd) ==
    LET s1 == [s EXCEPT !.shuffle = ~s.shuffle]
    IN  IF s1.shuffle
        THEN LET current == getCurrentTrack(s1)
                 sh == ShuffleArray(s1.queue, rnd)
                 idx == FindIndex(sh, current.id)
             IN  IF current # Null
                 THEN [s1 EXCEPT !.shuffledQueue = IF idx > 0 THEN Swap(sh, 0, idx) ELSE sh,
                                 !.currentIndex = 0]
                 ELSE [s1 EXCEPT !.shuffledQueue = sh]
        ELSE LET current == getCurrentTrack(s1)
             IN  IF current # Null
                 THEN [s1 EXCEPT !.currentIndex = FindIndex(s1.queue, current.id)]
                 ELSE s1

\* a plausible slip: the queue never wraps
_handleEndedWithoutWrap(s, allowed) ==
    LET s1 == Emit(s, Ev("onEnded"))
    IN  IF s1.repeat = "one" THEN play(SinkSeek(s1, 0), allowed)
        ELSE IF hasNext(s1) THEN next(s1, allowed)
        ELSE s1

\* a plausible slip: the queue wraps in every repeat mode
_handleEndedAlwaysWrapping(s, allowed) ==
    LET s1 == Emit(s, Ev("onEnded"))
    IN  IF s1.repeat = "one" THEN play(SinkSeek(s1, 0), allowed)
        ELSE IF hasNext(s1) THEN next(s1, allowed)
        ELSE IF Len(s1.queue) > 0 THEN playIndex(s1, 0, allowed)
        ELSE s1

\* a plausible slip: every mode but 'none' wraps at the end of the queue
_handleEndedWrappingUnlessNone(s, allowed) ==
    LET s1 == Emit(s, Ev("onEnded"))
    IN  IF s1.repeat = "one" THEN play(SinkSeek(s1, 0), allowed)
        ELSE IF hasNext(s1) THEN next(s1, allowed)
        ELSE IF s1.repeat # "none" /\ Len(s1.queue) > 0 THEN playIndex(s1, 0, allowed)
        ELSE s1

\* a plausible slip: repeat 'all' replays the last track instead of the first
_handleEndedRepeatingLast(s, allowed) ==
    LET s1 == Emit(s, Ev("onEnded"))
    IN  IF s1.repeat = "one" THEN play(SinkSeek(s1, 0), allowed)
        ELSE IF hasNext(s1) THEN next(s1, allowed)
        ELSE IF s1.repeat = "all" /\ Len(s1.queue) > 0
             THEN playIndex(s1, s1.currentIndex, allowed)
        ELSE s1

_handleEnded(s, allowed) ==
    LET s1 == Emit(s, Ev("onEnded"))
    IN  IF s1.repeat = "one" THEN play(SinkSeek(s1, 0), allowed)
        ELSE IF hasNext(s1) THEN next(s1, allowed)
        ELSE IF s1.repeat = "all" /\ Len(s1.queue) > 0 THEN playIndex(s1, 0, allowed)
        ELSE s1

\* -------------------------------------------------- continuations of calls
\* the catch blocks: playIndex reports through onError, play only logs
RECURSIVE Catch(_, _)
Catch(s, k) ==
    IF k > Len(s.pending) THEN s
    ELSE LET c == s.pending[k]
         IN  IF c.stage # "rejected" THEN Catch(s, k + 1)
             ELSE LET rest == [j \in 1..(Len(s.pending) - 1) |->
                                  IF j < k THEN s.pending[j] ELSE s.pending[j + 1]]
                      s1 == [s EXCEPT !.pending = rest]
                  IN  Catch(IF c.kind = "playIndex" THEN Emit(s1, EvT("onErrorCatch", c.track))
                            ELSE s1, k)

\* the statement after await audio.play(): playIndex announces its track
RECURSIVE Started(_, _)
Started(s, k) ==
    IF k > Len(s.pending) THEN s
    ELSE LET c == s.pending[k]
         IN  IF c.stage # "resolving" THEN Started(s, k + 1)
             ELSE LET rest == [j \in 1..(Len(s.pending) - 1) |->
                                  IF j < k THEN s.pending[j] ELSE s.pending[j + 1]]
                      s1 == [s EXCEPT !.pending = rest]
                  IN  Started(IF c.kind = "playIndex"
                              THEN Emit(s1, EvT("onTrackChange", c.track))
                              ELSE s1, k)

\* the statements after await audioContext.resume(): each call goes on to
\* audio.play(), oldest first
RECURSIVE Resumed(_, _, _)
Resumed(s, k, allowed) ==
    IF k > Len(s.pending) THEN s
    ELSE LET c == s.pending[k]
         IN  IF c.stage # "resume" THEN Resumed(s, k + 1, allowed)
             ELSE LET rest == [j \in 1..(Len(s.pending) - 1) |->
                                  IF j < k THEN s.pending[j] ELSE s.pending[j + 1]]
                  IN  Resumed(SinkPlay([s EXCEPT !.pending = rest], c, allowed), k, allowed)

\* a rejected audioContext.resume() is awaited outside the try blocks: the call
\* ends there, nothing is reported
Unresumed(s) == [s EXCEPT !.pending = SelectSeq(@, LAMBDA c : c.stage # "resume")]

\* a plausible slip: the play listener only notifies
onPlayUnrecorded(s) == Emit(s, Ev("onPlayStateChange(true)"))

\* the listeners of _setupEventListeners
onPlay(s) == Emit([s EXCEPT !.isPlaying = TRUE], Ev("onPlayStateChange(true)"))

\* a plausible slip: the pause listener only records
onPauseUnnotified(s) == [s EXCEPT !.isPlaying = FALSE]

onPause(s) == Emit([s EXCEPT !.isPlaying = FALSE], Ev("onPlayStateChange(false)"))

\* a plausible slip: an error skips to the next track
onErrorEventSkipping(s) == next(Emit(s, Ev("onError")), TRUE)

onErrorEvent(s) == Emit(s, Ev("onError"))

\* ---------------------------------------------------------------- actions
\* an operation issued while calls are in flight overlaps them
Overlapped(s) ==
    [s EXCEPT !.pending = [k \in DOMAIN @ |-> [@[k] EXCEPT !.alone = FALSE]]]

Host == Overlapped(Player)

\* a step ends when the microtasks it queued have run
Run(s) == Catch(s, 1)

\* the caps keep the calls in flight and the queued tasks within the bounds
Commit(s) ==
    /\ Len(s.pending) <= MaxPending
    /\ Len(s.tasks) <= MaxTasks
    /\ queue' = s.queue
    /\ shuffledQueue' = s.shuffledQueue
    /\ currentIndex' = s.currentIndex
    /\ isPlaying' = s.isPlaying
    /\ repeat' = s.repeat
    /\ shuffle' = s.shuffle
    /\ audioContext' = s.audioContext
    /\ analyser' = s.analyser
    /\ contexts' = s.contexts
    /\ volume' = s.volume
    /\ audio' = s.audio
    /\ pending' = s.pending
    /\ tasks' = s.tasks

Init ==
    /\ queue = <<>>
    /\ shuffledQueue = <<>>
    /\ currentIndex = -1
    /\ isPlaying = FALSE
    /\ repeat = "none"
    /\ shuffle = FALSE
    /\ audioContext = "null"
    /\ analyser = 0
    /\ contexts = 0
    /\ volume = VolumeScale
    /\ audio = [src |-> "", paused |-> TRUE, ready |-> "empty", currentTime |-> 0,
                volume |-> VolumeScale]
    /\ pending = <<>>
    /\ tasks = <<>>

RepeatModes == {"none", "one", "all"}
Indices == -1..MaxLen

SetQueue ==
    \E tracks \in TrackLists : \E rnd \in RandomDraws(Len(tracks)) :
        Commit(Run(setQueue(Host, tracks, rnd)))

AddToQueue ==
    \E tracks \in TrackLists : \E rnd \in RandomDraws(Len(queue) + Len(tracks)) :
        /\ Len(queue) + Len(tracks) <= MaxLen
        /\ Commit(Run(addToQueue(Host, tracks, rnd)))

ClearQueue == Commit(Run(clearQueue(Host)))

PlayIndex ==
    \E index \in Indices, allowed \in BOOLEAN : Commit(Run(playIndex(Host, index, allowed)))

Play == \E allowed \in BOOLEAN : Commit(Run(play(Host, allowed)))

Pause == Commit(Run(pause(Host)))

TogglePlay == \E allowed \in BOOLEAN : Commit(Run(togglePlay(Host, allowed)))

Stop == Commit(Run(stop(Host)))

NextTrack == \E allowed \in BOOLEAN : Commit(Run(next(Host, allowed)))

Previous == \E allowed \in BOOLEAN : Commit(Run(previous(Host, allowed)))

SetRepeat == \E mode \in RepeatModes : Commit(Run(setRepeat(Host, mode)))

ToggleShuffle == \E rnd \in RandomDraws(Len(queue)) : Commit(Run(toggleShuffle(Host, rnd)))

\* a plausible slip: initAudioContext without its guard
getAnalyserRecreating(s, st) ==
    IF st = "null" THEN s
    ELSE [s EXCEPT !.audioContext = st,
                   !.contexts = @ + 1,
                   !.analyser = s.contexts + 1]

\* getAnalyser() -> initAudioContext(): the context is created once; the
\* browser starts it running or, before a user gesture, suspended; or it cannot
\* create one (st = "null"), which is logged and leaves everything null
getAnalyser(s, st) ==
    IF s.audioContext # "null" \/ st = "null" THEN s
    ELSE [s EXCEPT !.audioContext = st,
                   !.contexts = @ + 1,
                   !.analyser = s.contexts + 1]

GetAnalyser ==
    \E st \in {"null", "running", "suspended"} : Commit(Run(getAnalyser(Host, st)))

\* the media element dispatches its oldest queued task: the play event, the
\* pause event followed by the rejection of the promises pause() took, or the
\* fulfilment of the play promises
\* a plausible slip that is not in the code: a fulfilled start announces its
\* track only while that track is still the selected one
RECURSIVE StartedIfCurrent(_, _)
StartedIfCurrent(s, k) ==
    IF k > Len(s.pending) THEN s
    ELSE LET c == s.pending[k]
         IN  IF c.stage # "resolving" THEN StartedIfCurrent(s, k + 1)
             ELSE LET rest == [j \in 1..(Len(s.pending) - 1) |->
                                  IF j < k THEN s.pending[j] ELSE s.pending[j + 1]]
                      s1 == [s EXCEPT !.pending = rest]
                  IN  StartedIfCurrent(IF c.kind = "playIndex" /\ c.track = getCurrentTrack(s)
                                       THEN Emit(s1, EvT("onTrackChange", c.track))
                                       ELSE s1, k)

dispatchCancelling(s, task) ==
    IF task = "play" THEN onPlay(s)
    ELSE IF task = "pause"
         THEN [onPause(s) EXCEPT !.pending = Restage(@, "aborted", "rejected")]
    ELSE StartedIfCurrent(s, 1)

dispatch(s, task) ==
    IF task = "play" THEN onPlay(s)
    ELSE IF task = "pause"
         THEN [onPause(s) EXCEPT !.pending = Restage(@, "aborted", "rejected")]
    ELSE Started(s, 1)

Dispatched == Run(dispatch([Player EXCEPT !.tasks = Tail(@)], Head(tasks)))

Dispatch ==
    /\ tasks # <<>>
    /\ Commit(Dispatched)

\* the resource has enough data: a playing element fulfils its play promises
Loaded ==
    LET s == [Player EXCEPT !.audio.ready = "ready"]
        waiting == \E k \in DOMAIN pending : pending[k].stage = "start"
    IN  IF ~audio.paused /\ waiting
        THEN [s EXCEPT !.pending = Restage(@, "start", "resolving"),
                       !.tasks = Append(@, "resolve")]
        ELSE s

SinkLoaded ==
    /\ audio.ready = "loading"
    /\ Commit(Run(Loaded))

\* the resource cannot be loaded: the error event, then the play promises are
\* rejected; the element stays as play() left it
LoadFailed ==
    Run([onErrorEvent([Player EXCEPT !.audio.ready = "failed"])
            EXCEPT !.pending = Restage(@, "start", "rejected")])

SinkLoadFailed ==
    /\ audio.ready = "loading"
    /\ tasks = <<>>
    /\ Commit(LoadFailed)

\* a decode error stops a loaded resource: the error event
DecodeError == Run(onErrorEvent([Player EXCEPT !.audio.ready = "broken"]))

SinkDecodeError ==
    /\ audio.ready = "ready"
    /\ tasks = <<>>
    /\ Commit(DecodeError)

\* playback reaches the end: the element pauses itself (pause event), then the
\* ended event runs _handleEnded
CanEnd == audio.ready = "ready" /\ ~audio.paused /\ tasks = <<>>

AtEnd == onPause([Host EXCEPT !.audio.ready = "ended", !.audio.paused = TRUE])

Ended(allowed) == Run(_handleEnded(AtEnd, allowed))

SinkEnded ==
    /\ CanEnd
    /\ \E allowed \in BOOLEAN : Commit(Ended(allowed))

\* playback advances
SinkTimeUpdate ==
    /\ audio.ready = "ready"
    /\ ~audio.paused
    /\ \E t \in Positions :
        /\ t > audio.currentTime
        /\ Commit(Run(Emit([Player EXCEPT !.audio.currentTime = t], Ev("onTimeUpdate"))))

\* the browser suspends the audio context
CtxSuspend ==
    /\ audioContext = "running"
    /\ Commit([Player EXCEPT !.audioContext = "suspended"])

\* the audio context resumes: the calls awaiting it go on
CtxResume(allowed) == Run(Resumed([Player EXCEPT !.audioContext = "running"], 1, allowed))

CtxResumed ==
    /\ audioContext = "suspended"
    /\ \E allowed \in BOOLEAN : Commit(CtxResume(allowed))

\* audioContext.resume() is rejected
CtxResumeFailed ==
    /\ audioContext = "suspended"
    /\ \E k \in DOMAIN pending : pending[k].stage = "resume"
    /\ Commit(Run(Unresumed(Player)))

\* the host's seek bar and keys: index.js seeks to positions of the track, and
\* raises and lowers the volume by a tenth
SeekInputs == {Number(t) : t \in Positions} \cup {NaN, Infinity}
Percents == {0, 75, 100}
VolumeInputs == (0 - 2)..(VolumeScale + 2)
RepeatInputs == RepeatModes \cup {"random"}

Seek == \E time \in SeekInputs : Commit(Run(seek(Host, time)))

SeekPercent == \E percent \in Percents : Commit(Run(seekPercent(Host, percent)))

SetVolume == \E v \in VolumeInputs : Commit(Run(setVolume(Host, v)))

VolumeUp == Commit(Run(setVolume(Host, getVolume(Host) + 1)))

VolumeDown == Commit(Run(setVolume(Host, getVolume(Host) - 1)))

\* setRepeat() with whatever string the caller passes
SetRepeatAny == \E mode \in RepeatInputs : Commit(Run(setRepeat(Host, mode)))

\* the operations on the queue and the transport, and the media element's
\* notifications
Next ==
    \/ SetQueue
    \/ AddToQueue
    \/ ClearQueue
    \/ PlayIndex
    \/ Play
    \/ Pause
    \/ NextTrack
    \/ Previous
    \/ SetRepeat
    \/ ToggleShuffle
    \/ Dispatch
    \/ SinkLoaded
    \/ SinkLoadFailed
    \/ SinkEnded

Spec == Init /\ [][Next]_vars

\* the transport over a queue the host sets and clears, shuffle off
NextTransport ==
    \/ SetQueue
    \/ ClearQueue
    \/ PlayIndex
    \/ Play
    \/ Pause
    \/ TogglePlay
    \/ Stop
    \/ NextTrack
    \/ Previous
    \/ SetRepeat
    \/ Dispatch
    \/ SinkLoaded
    \/ SinkLoadFailed
    \/ SinkEnded

SpecTransport == Init /\ [][NextTransport]_vars

\* the transport with an audio context that the browser suspends and resumes
NextContext ==
    \/ SetQueue
    \/ PlayIndex
    \/ Play
    \/ Pause
    \/ NextTrack
    \/ GetAnalyser
    \/ Dispatch
    \/ SinkLoaded
    \/ SinkLoadFailed
    \/ SinkEnded
    \/ CtxSuspend
    \/ CtxResumed
    \/ CtxResumeFailed

SpecContext == Init /\ [][NextContext]_vars

\* the transport with the playback position and decode errors
NextPosition ==
    \/ SetQueue
    \/ PlayIndex
    \/ Play
    \/ Pause
    \/ Stop
    \/ NextTrack
    \/ Previous
    \/ SetRepeat
    \/ Dispatch
    \/ SinkLoaded
    \/ SinkLoadFailed
    \/ SinkDecodeError
    \/ SinkEnded
    \/ SinkTimeUpdate

SpecPosition == Init /\ [][NextPosition]_vars

\* seeking and repeat modes as the caller passes them
NextSeek ==
    \/ SetQueue
    \/ PlayIndex
    \/ Pause
    \/ SetRepeatAny
    \/ Seek
    \/ SeekPercent
    \/ Dispatch
    \/ SinkLoaded
    \/ SinkLoadFailed
    \/ SinkEnded

SpecSeek == Init /\ [][NextSeek]_vars

\* the volume
NextVolume ==
    \/ SetQueue
    \/ PlayIndex
    \/ Pause
    \/ SetVolume
    \/ VolumeUp
    \/ VolumeDown
    \/ Dispatch
    \/ SinkLoaded

SpecVolume == Init /\ [][NextVolume]_vars

\* playback left to itself: the host loads an album (index.js builds every track
\* with a stream URL), sets the modes and starts one track, and issues nothing
\* after that; the element accepts every start, loads every source and plays
\* every track to its end
LibraryLen == MaxLen + 1

PlayableTracks == {t \in Tracks : t.streamUrl # ""}

Libraries == {t \in SeqsUpTo(PlayableTracks, LibraryLen) : t # <<>>}

Idle == currentIndex = -1 /\ audio.src = "" /\ pending = <<>>

LoadLibrary ==
    /\ Idle
    /\ \E tracks \in Libraries : \E rnd \in RandomDraws(Len(tracks)) :
        Commit(Run(setQueue(Host, tracks, rnd)))

IdleSetRepeat == Idle /\ SetRepeat

IdleToggleShuffle == Idle /\ ToggleShuffle

StartAt ==
    /\ Idle
    /\ \E index \in 0..(Len(queue) - 1) : Commit(Run(playIndex(Host, index, TRUE)))

SinkEndedAllowed ==
    /\ CanEnd
    /\ Commit(Ended(TRUE))

NextAutoplay ==
    \/ LoadLibrary
    \/ IdleSetRepeat
    \/ IdleToggleShuffle
    \/ StartAt
    \/ Dispatch
    \/ SinkLoaded
    \/ SinkEndedAllowed

\* the event loop runs every queued task, every load completes, every playing
\* track ends
SpecAutoplay ==
    /\ Init
    /\ [][NextAutoplay]_vars
    /\ WF_vars(Dispatch)
    /\ WF_vars(SinkLoaded)
    /\ WF_vars(SinkEndedAllowed)

TypeOK ==
    /\ queue \in SeqsUpTo(Tracks, LibraryLen)
    /\ Len(shuffledQueue) = Len(queue)
    /\ currentIndex \in Indices
    /\ audio.ready \in ReadyStates
    /\ audio.currentTime \in Positions
    /\ audio.volume \in 0..VolumeScale
    /\ volume \in 0..VolumeScale
    /\ analyser \in 0..1
    /\ contexts \in 0..1
    /\ repeat \in RepeatInputs

\* ----------------------------------------------------------------- claims
\* what a step put out
Fired(r, e) == {k \in DOMAIN r.out : r.out[k].e = e}
FiredFor(r, e, t) == {k \in DOMAIN r.out : r.out[k] = EvT(e, t)}

\* the calls of r that wait for audioContext.resume() before they start t
AwaitingResume(r, t) ==
    {k \in DOMAIN r.pending : r.pending[k].stage = "resume" /\ r.pending[k].track = t}

\* r loaded t and issued its start, or will issue it once the context resumes
LoadedAndStarted(r, t) ==
    /\ FiredFor(r, "load", t) # {}
    /\ FiredFor(r, "start", t) # {} \/ AwaitingResume(r, t) # {}
    /\ r.audio.src = t.streamUrl

NoSinkCommand(r) ==
    \A k \in DOMAIN r.out : r.out[k].e \notin {"load", "start", "pause", "seek"}

\* the indices the claims call valid: 0 <= i < length(activeOrdering())
Valid(i) == 0 <= i /\ i < Len(IF shuffle THEN shuffledQueue ELSE queue)

Occurrences(a, x) == Cardinality({k \in DOMAIN a : a[k] = x})

\* C1: whenever a track is selected, activeIndex lies within the active ordering
C1_IndexWithinActiveOrdering ==
    currentIndex # -1 => 0 <= currentIndex /\ currentIndex < Len(getQueue(Player))

\* C1 witness: a later position is selected in the shuffled ordering after a load failed
C1_Witness ==
    /\ shuffle
    /\ currentIndex = Len(shuffledQueue) - 1
    /\ currentIndex > 0
    /\ audio.ready = "failed"

\* C2: while shuffle is enabled the shuffled ordering is a permutation of the
\* canonical one: the same tracks with the same multiplicities
C2_ShuffledIsPermutation ==
    shuffle =>
        /\ Len(shuffledQueue) = Len(queue)
        /\ \A t \in Tracks : Occurrences(shuffledQueue, t) = Occurrences(queue, t)

\* C2 witness: shuffle is on, the selected track sits at the front of a shuffled
\* ordering that differs from the canonical one, which holds an id twice
C2_Witness ==
    /\ shuffle
    /\ currentIndex = 0
    /\ shuffledQueue # queue
    /\ \E i, j \in DOMAIN queue : i # j /\ queue[i].id = queue[j].id

\* C3: playIndex(i) with a valid i selects i in the step of the call, while the
\* start of the track is still outstanding, and neither the fulfilment nor the
\* failure of the start changes the selection
C3_PlayIndexSelectsAtOnce ==
    /\ \A index \in Indices, allowed \in BOOLEAN :
        Valid(index) =>
            Run(playIndex(Host, index, allowed)).currentIndex = index
    /\ tasks # <<>> => Dispatched.currentIndex = currentIndex
    /\ audio.ready = "loading" =>
        /\ Run(Loaded).currentIndex = currentIndex
        /\ LoadFailed.currentIndex = currentIndex
    /\ \A allowed \in BOOLEAN : CtxResume(allowed).currentIndex = currentIndex
    /\ Run(Unresumed(Player)).currentIndex = currentIndex

\* C3 witness: the call playIndex(1) is in flight, made while index 0 was loaded, and
\* index 1 is selected
C3_Witness ==
    /\ currentIndex = 1
    /\ Len(pending) = 1
    /\ pending[1].kind = "playIndex"
    /\ pending[1].stage = "start"
    /\ pending[1].alone
    /\ pending[1].track = At(queue, 1)
    /\ audio.ready = "loading"

\* the playIndex calls waiting for the Sink to start their track
StartingCalls == {k \in DOMAIN pending : pending[k].kind = "playIndex"
                                        /\ pending[k].stage = "start"}

\* C4: when the Sink rejects the start of a playIndex call, onError fires for it,
\* its track is not announced, the selection stays and isPlaying is false
C4_FailedStartLeavesNotPlaying ==
    /\ \A index \in Indices :
        LET track == At(getQueue(Player), index)
            r == Run(playIndex(Host, index, FALSE))
        IN  (Valid(index) /\ track.streamUrl # ""
                /\ ~Suspended(Player)) =>
                /\ FiredFor(r, "onErrorCatch", track) # {}
                /\ Fired(r, "onTrackChange") = {}
                /\ r.currentIndex = index
                /\ ~r.isPlaying
    /\ (audio.ready = "loading" /\ tasks = <<>>) =>
        \A k \in StartingCalls :
            /\ FiredFor(LoadFailed, "onErrorCatch", pending[k].track) # {}
            /\ Fired(LoadFailed, "onTrackChange") = {}
            /\ LoadFailed.currentIndex = currentIndex
            /\ ~LoadFailed.isPlaying

\* the part of C4 the code keeps: the error is reported, no track is announced,
\* the selection stays
C4_FailedStartReported ==
    /\ \A index \in Indices :
        LET track == At(getQueue(Player), index)
            r == Run(playIndex(Host, index, FALSE))
        IN  (Valid(index) /\ track.streamUrl # ""
                /\ ~Suspended(Player)) =>
                /\ FiredFor(r, "onErrorCatch", track) # {}
                /\ Fired(r, "onTrackChange") = {}
                /\ r.currentIndex = index
    /\ (audio.ready = "loading" /\ tasks = <<>>) =>
        \A k \in StartingCalls :
            /\ FiredFor(LoadFailed, "onErrorCatch", pending[k].track) # {}
            /\ Fired(LoadFailed, "onTrackChange") = {}
            /\ LoadFailed.currentIndex = currentIndex

\* the playIndex calls the next dispatched task fulfils, none overlapping them
FulfilledAlone ==
    {k \in DOMAIN pending : /\ tasks # <<>>
                            /\ Head(tasks) = "resolve"
                            /\ pending[k].kind = "playIndex"
                            /\ pending[k].stage = "resolving"
                            /\ pending[k].alone}

\* C5: when the start of a playIndex(i) call that nothing overlaps is fulfilled,
\* onTrackChange fires once, with the track at i of the active ordering; the
\* play event has made isPlaying true, and the Sink holds that track's locator;
\* the call is then over
C5_FulfilledStartAnnouncesTrack ==
    \A k \in FulfilledAlone :
        LET c == pending[k]
            r == Dispatched
        IN  /\ Cardinality(Fired(r, "onTrackChange")) = 1
            /\ FiredFor(r, "onTrackChange", c.track) # {}
            /\ c.track = At(getQueue(Player), currentIndex)
            /\ isPlaying
            /\ r.isPlaying
            /\ audio.src = c.track.streamUrl
            /\ \A j \in DOMAIN r.pending : r.pending[j].kind # "playIndex"

\* C5 witness: the start of playIndex(1) is about to be fulfilled
C5_Witness ==
    /\ FulfilledAlone # {}
    /\ currentIndex = 1
    /\ audio.ready = "ready"

\* C6: playIndex(i) with i outside the active ordering changes nothing, issues no
\* Sink command and fires no notification
C6_PlayIndexOutOfRangeIsNoOp ==
    \A index \in Indices, allowed \in BOOLEAN :
        ~Valid(index) =>
            Run(playIndex(Host, index, allowed)) = Host

\* C6 witness: a one-track queue is playing, so that both -1 and 1 are out of range
C6_Witness ==
    /\ Len(queue) = 1
    /\ currentIndex = 0
    /\ isPlaying
    /\ ~audio.paused
    /\ ~Valid(1)

\* C7: with repeat one, ended seeks the Sink to 0 and starts the loaded track
\* again; the selection and the loaded locator do not change
C7_RepeatOneReplaysLoadedTrack ==
    (CanEnd /\ repeat = "one") =>
        \A allowed \in BOOLEAN :
            LET r == Ended(allowed)
            IN  /\ r.currentIndex = currentIndex
                /\ r.audio.src = audio.src
                /\ r.audio.currentTime = 0
                /\ Fired(r, "load") = {}
                /\ Fired(r, "start") # {}
                    \/ \E k \in DOMAIN r.pending : r.pending[k].stage = "resume"

\* C7 where the code keeps it: a track is selected, or the queue is empty
C7_RepeatOneReplaysSelectedTrack ==
    (CanEnd /\ repeat = "one" /\ (currentIndex >= 0 \/ queue = <<>>)) =>
        \A allowed \in BOOLEAN :
            LET r == Ended(allowed)
            IN  /\ r.currentIndex = currentIndex
                /\ r.audio.src = audio.src
                /\ r.audio.currentTime = 0
                /\ Fired(r, "load") = {}
                /\ Fired(r, "start") # {}
                    \/ \E k \in DOMAIN r.pending : r.pending[k].stage = "resume"

AtLastPosition == currentIndex = Len(getQueue(Player)) - 1

C9_RepeatOffStopsAtEnd ==
    (CanEnd /\ repeat = "none" /\ AtLastPosition) =>
        \A allowed \in BOOLEAN :
            LET r == Ended(allowed)
            IN  /\ r.currentIndex = currentIndex
                /\ NoSinkCommand(r)
                /\ ~r.isPlaying
                /\ r.audio.paused

\* C9 witness: repeat off, the last of two tracks is playing and can end
C9_Witness ==
    /\ CanEnd
    /\ repeat = "none"
    /\ Len(queue) = 2
    /\ AtLastPosition
    /\ isPlaying

\* the first thing _handleEnded does, after the pause event of the ending element
EndedFiresFirst(r) ==
    /\ Len(r.out) >= 2
    /\ r.out[1] = Ev("onPlayStateChange(false)")
    /\ r.out[2] = Ev("onEnded")
    /\ Cardinality(Fired(r, "onEnded")) = 1

CurrentId == At(getQueue(Player), currentIndex).id

\* C11: enabling shuffle while a track is selected selects position 0 and puts
\* there a track with the id of the track that was current, whatever is drawn
C11_EnableShuffleKeepsCurrentTrack ==
    (~shuffle /\ currentIndex # -1) =>
        \A rnd \in RandomDraws(Len(queue)) :
            LET r == Run(toggleShuffle(Host, rnd))
            IN  /\ r.shuffle
                /\ r.currentIndex = 0
                /\ At(r.shuffledQueue, 0).id = CurrentId

\* what the code does on enabling: the track kept at the front is the one at the
\* selected position of the shuffled ordering left by the last regeneration
C11_EnableShuffleKeepsStaleTrack ==
    (~shuffle /\ currentIndex # -1) =>
        \A rnd \in RandomDraws(Len(queue)) :
            LET r == Run(toggleShuffle(Host, rnd))
            IN  /\ r.shuffle
                /\ r.currentIndex = 0
                /\ At(r.shuffledQueue, 0).id = At(shuffledQueue, currentIndex).id

\* C12: enabling and then disabling shuffle, with nothing in between, leaves the
\* selection on a track with the id of the track that was current; with no
\* track selected the selection stays none
C12_ShuffleRoundTripKeepsCurrentTrack ==
    ~shuffle =>
        \A rnd \in RandomDraws(Len(queue)) :
            LET r == Run(toggleShuffle(Run(toggleShuffle(Host, rnd)), rnd))
            IN  /\ ~r.shuffle
                /\ currentIndex = -1 => r.currentIndex = -1
                /\ currentIndex # -1 => At(r.queue, r.currentIndex).id = CurrentId

\* what the code does on the round trip: a selection returns to the first
\* position of the canonical ordering
C12_ShuffleRoundTripSelectsFirst ==
    ~shuffle =>
        \A rnd \in RandomDraws(Len(queue)) :
            LET r == Run(toggleShuffle(Run(toggleShuffle(Host, rnd)), rnd))
            IN  /\ ~r.shuffle
                /\ r.queue = queue
                /\ currentIndex = -1 => r.currentIndex = -1
                /\ currentIndex # -1 => r.currentIndex = 0

\* C13: disabling shuffle while a track is selected selects the first position
\* of the canonical ordering whose track has the id of the track that was
\* current in the shuffled ordering
C13_DisableShuffleKeepsCurrentTrack ==
    (shuffle /\ currentIndex # -1) =>
        \A rnd \in RandomDraws(Len(queue)) :
            LET r == Run(toggleShuffle(Host, rnd))
            IN  /\ ~r.shuffle
                /\ r.currentIndex = FindIndex(queue, CurrentId)
                /\ At(r.queue, r.currentIndex).id = CurrentId

\* what the code does on disabling: the id looked up is the one at the selected
\* position of the canonical ordering
C13_DisableShuffleLooksUpCanonical ==
    (shuffle /\ currentIndex # -1) =>
        \A rnd \in RandomDraws(Len(queue)) :
            LET r == Run(toggleShuffle(Host, rnd))
            IN  /\ ~r.shuffle
                /\ r.currentIndex = FindIndex(queue, At(queue, currentIndex).id)

\* a and b hold the same tracks with the same multiplicities
Permutation(a, b) ==
    /\ Len(a) = Len(b)
    /\ \A t \in Tracks : Occurrences(a, t) = Occurrences(b, t)

\* C14: setQueue(T) makes the canonical ordering T, the shuffled ordering a
\* permutation of T, and the selection none, from every state
C14_SetQueueReplacesQueue ==
    \A tracks \in TrackLists : \A rnd \in RandomDraws(Len(tracks)) :
        LET r == Run(setQueue(Host, tracks, rnd))
        IN  /\ r.queue = tracks
            /\ Permutation(r.shuffledQueue, tracks)
            /\ r.currentIndex = -1

\* C14 witness: a queue holding an id twice was set while a track was playing
\* with shuffle on; its shuffled ordering differs from the canonical one
C14_Witness ==
    /\ currentIndex = -1
    /\ isPlaying
    /\ shuffle
    /\ Len(queue) = MaxLen
    /\ shuffledQueue # queue
    /\ \E i, j \in DOMAIN queue : i # j /\ queue[i].id = queue[j].id

\* C15: addToQueue(S) appends S to the canonical ordering, regenerates the
\* shuffled ordering as a permutation of the result, and leaves the selection,
\* isPlaying, the repeat mode and the shuffle flag as they were (checked for
\* results of up to MaxLen + 1 tracks)
C15_AddToQueueAppends ==
    \A tracks \in {t \in TrackLists : Len(queue) + Len(t) <= MaxLen + 1} :
      \A rnd \in RandomDraws(Len(queue) + Len(tracks)) :
        LET r == Run(addToQueue(Host, tracks, rnd))
        IN  /\ r.queue = queue \o tracks
            /\ \A i \in DOMAIN queue : r.queue[i] = queue[i]
            /\ Permutation(r.shuffledQueue, queue \o tracks)
            /\ r.currentIndex = currentIndex
            /\ r.isPlaying = isPlaying
            /\ r.repeat = repeat
            /\ r.shuffle = shuffle

\* C15 witness: a track is selected and playing under shuffle and repeat all in
\* a queue grown to MaxLen tracks, whose shuffled ordering starts with another
\* track than the canonical one
C15_Witness ==
    /\ Len(queue) = MaxLen
    /\ currentIndex = 0
    /\ isPlaying
    /\ shuffle
    /\ repeat = "all"
    /\ audio.src = At(queue, 0).streamUrl
    /\ At(shuffledQueue, 0) # At(queue, 0)

\* C16: clearQueue() empties both orderings and selects nothing; after it
\* hasNext() and hasPrevious() are false, and play(), next(), previous() and
\* playIndex(i) change neither the selection nor the queue
C16_ClearEmptiesQueue ==
    LET r == Run(clearQueue(Host))
        after == {Run(play(r, allowed)) : allowed \in BOOLEAN}
                    \cup {Run(next(r, allowed)) : allowed \in BOOLEAN}
                    \cup {Run(previous(r, allowed)) : allowed \in BOOLEAN}
                    \cup {Run(playIndex(r, index, allowed)) :
                            index \in Indices, allowed \in BOOLEAN}
    IN  /\ r.queue = <<>>
        /\ r.shuffledQueue = <<>>
        /\ r.currentIndex = -1
        /\ ~hasNext(r)
        /\ ~hasPrevious(r)
        /\ \A x \in after : /\ x.currentIndex = -1
                             /\ x.queue = <<>>
                             /\ x.shuffledQueue = <<>>

\* C16 witness: the queue was cleared while a track was playing with shuffle on
C16_Witness ==
    /\ queue = <<>>
    /\ shuffledQueue = <<>>
    /\ currentIndex = -1
    /\ shuffle
    /\ isPlaying
    /\ ~audio.paused

\* the queues of n tracks, no track twice
DistinctTracks(n) ==
    {t \in [1..n -> Tracks] : \A i, j \in 1..n : i # j => t[i] # t[j]}

\* n calls of next(), each step run to its end
RECURSIVE Nexts(_, _, _)
Nexts(s, n, allowed) ==
    IF n = 0 THEN s ELSE Nexts(Run(next(s, allowed)), n - 1, allowed)

\* C17: next() changes nothing, commands nothing and notifies nothing at or past
\* the last position, and otherwise is playIndex(activeIndex + 1); so in a queue
\* of MaxLen + 1 different tracks with shuffle and repeat off, playIndex(0) and MaxLen
\* calls of next() select the last track, and one more next() changes nothing
C17_NextStopsAtLastTrack ==
    /\ \A allowed \in BOOLEAN :
        LET r == Run(next(Host, allowed))
        IN  IF currentIndex >= Len(IF shuffle THEN shuffledQueue ELSE queue) - 1
            THEN r = Host
            ELSE /\ r = Run(playIndex(Host, currentIndex + 1, allowed))
                 /\ r.currentIndex = currentIndex + 1
    /\ (~shuffle /\ repeat = "none") =>
        \A tracks \in DistinctTracks(MaxLen + 1) :
          \A rnd \in RandomDraws(MaxLen + 1), allowed \in BOOLEAN :
            LET s0 == Run(playIndex(Run(setQueue(Host, tracks, rnd)), 0, allowed))
                s1 == [Nexts(s0, MaxLen, allowed) EXCEPT !.out = <<>>]
            IN  /\ s0.currentIndex = 0
                /\ s1.currentIndex = MaxLen
                /\ getCurrentTrack(s1) = tracks[MaxLen + 1]
                /\ Run(next(s1, allowed)) = s1

\* C17 witness: the last of MaxLen tracks is selected and playing after the
\* one before it, with repeat off
C17_Witness ==
    /\ Len(queue) = MaxLen
    /\ currentIndex = MaxLen - 1
    /\ repeat = "none"
    /\ isPlaying
    /\ audio.src = At(queue, currentIndex).streamUrl
    /\ audio.ready = "ready"

\* C18: previous() past 3 seconds seeks to 0, keeps the selection and loads
\* nothing; at 3 seconds or before it is playIndex(activeIndex - 1) when
\* activeIndex > 0, and changes nothing otherwise
C18_PreviousRestartsOrGoesBack ==
    \A allowed \in BOOLEAN :
        LET r == Run(previous(Host, allowed))
        IN  IF audio.currentTime > 3
            THEN /\ r.currentIndex = currentIndex
                 /\ r.audio.currentTime = 0
                 /\ r.audio.src = audio.src
                 /\ Fired(r, "seek") # {}
                 /\ Fired(r, "load") = {}
                 /\ Fired(r, "start") = {}
            ELSE IF currentIndex > 0
            THEN /\ r = Run(playIndex(Host, currentIndex - 1, allowed))
                 /\ r.currentIndex = currentIndex - 1
            ELSE r = Host

\* C18 witness: the second track is playing at exactly 3 seconds
C18_Witness ==
    /\ currentIndex = 1
    /\ audio.currentTime = 3
    /\ audio.ready = "ready"
    /\ ~audio.paused
    /\ isPlaying

\* the calls of play() in flight at the given stage
PlayCalls(stage) ==
    {k \in DOMAIN pending : pending[k].kind = "play" /\ pending[k].stage = stage}

\* C19: play() with no track selected and a non-empty queue is playIndex(0);
\* otherwise it keeps the selection, loads nothing and commands the Sink to
\* start (once the audio context has resumed); when its start is refused,
\* fails or is aborted, or the context does not resume, the selection stays
\* and no track is announced
C19_PlayResumesOrStartsFirst ==
    /\ \A allowed \in BOOLEAN :
        LET r == Run(play(Host, allowed))
        IN  IF currentIndex = -1 /\ queue # <<>>
            THEN /\ r = Run(playIndex(Host, 0, allowed))
                 /\ r.currentIndex = 0
            ELSE /\ r.currentIndex = currentIndex
                 /\ r.queue = queue
                 /\ r.audio.src = audio.src
                 /\ Fired(r, "load") = {}
                 /\ Fired(r, "onTrackChange") = {}
                 /\ \/ Fired(r, "start") # {}
                    \/ \E k \in DOMAIN r.pending :
                        r.pending[k].kind = "play" /\ r.pending[k].stage = "resume"
    /\ (PlayCalls("start") # {} /\ audio.ready = "loading") =>
        /\ LoadFailed.currentIndex = currentIndex
        /\ Fired(LoadFailed, "onTrackChange") = {}
        /\ \A k \in DOMAIN LoadFailed.pending : LoadFailed.pending[k].stage # "start"
    /\ (PlayCalls("aborted") # {} /\ tasks # <<>> /\ Head(tasks) = "pause") =>
        /\ Dispatched.currentIndex = currentIndex
        /\ Fired(Dispatched, "onTrackChange") = {}
    /\ PlayCalls("resume") # {} =>
        /\ Run(Unresumed(Player)).currentIndex = currentIndex
        /\ Fired(Run(Unresumed(Player)), "onTrackChange") = {}

\* C19 witness: a play() call awaits the start of the loading second track
C19_Witness ==
    /\ currentIndex = 1
    /\ PlayCalls("start") # {}
    /\ audio.ready = "loading"
    /\ ~audio.paused

\* C20: an error the Sink reports fires onError and nothing else: the selection
\* and both orderings stay, and no command goes to the Sink, in every repeat mode
C20_SinkErrorCausesNoReaction ==
    /\ audio.ready = "loading" =>
        /\ Fired(LoadFailed, "onError") # {}
        /\ LoadFailed.currentIndex = currentIndex
        /\ LoadFailed.queue = queue
        /\ LoadFailed.shuffledQueue = shuffledQueue
        /\ LoadFailed.audio.src = audio.src
        /\ NoSinkCommand(LoadFailed)
    /\ audio.ready = "ready" =>
        /\ Fired(DecodeError, "onError") # {}
        /\ DecodeError.currentIndex = currentIndex
        /\ DecodeError.queue = queue
        /\ DecodeError.shuffledQueue = shuffledQueue
        /\ DecodeError.audio.src = audio.src
        /\ NoSinkCommand(DecodeError)

\* C20 witness: a decode error has stopped the first of two tracks under repeat
\* all, and the first track is still the selected one
C20_Witness ==
    /\ audio.ready = "broken"
    /\ repeat = "all"
    /\ Len(queue) = MaxLen
    /\ currentIndex = 0
    /\ audio.src = At(queue, 0).streamUrl

\* the playIndex calls whose start the next dispatched task fulfils
Fulfilled ==
    {k \in DOMAIN pending : /\ tasks # <<>>
                            /\ Head(tasks) = "resolve"
                            /\ pending[k].kind = "playIndex"
                            /\ pending[k].stage = "resolving"}

\* C21: a later playIndex(j) drops no call in flight, and a call whose start is
\* fulfilled announces its own track without touching the selection, whatever
\* is selected by then
C21_EarlierCallStillAnnounces ==
    /\ \A index \in Indices, allowed \in BOOLEAN :
        Len(playIndex(Host, index, allowed).pending) >= Len(pending)
    /\ \A k \in Fulfilled :
        /\ FiredFor(Dispatched, "onTrackChange", pending[k].track) # {}
        /\ Dispatched.currentIndex = currentIndex

\* C21 witness: playIndex(0) is about to be fulfilled after playIndex(1) has
\* selected and loaded another track: onTrackChange will carry the track that
\* is no longer the selected one
C21_Witness ==
    /\ Fulfilled # {}
    /\ currentIndex = 1
    /\ At(queue, 1).streamUrl # ""
    /\ audio.src = At(queue, 1).streamUrl
    /\ \E k \in Fulfilled :
        /\ pending[k].track = At(queue, 0)
        /\ pending[k].track # At(queue, 1)
        /\ FiredFor(Dispatched, "onTrackChange", At(queue, 0)) # {}

\* the load started by a playIndex call hangs: the call awaits its start, no
\* operation has been issued since, and the element has nothing left to dispatch
HungLoad ==
    /\ Len(pending) = 1
    /\ pending[1].kind = "playIndex"
    /\ pending[1].stage = "start"
    /\ pending[1].alone
    /\ audio.ready = "loading"
    /\ tasks = <<>>

\* C22: while the load of playIndex(i) hangs, isPlaying is false and the track
\* at i is the selected one
C22_HungLoadLeavesNotPlaying ==
    HungLoad =>
        /\ ~isPlaying
        /\ getCurrentTrack(Player) = pending[1].track

\* the part of C22 the code keeps: the attempted track stays selected, and the
\* element has left the paused state
C22_HungLoadKeepsSelection ==
    HungLoad =>
        /\ getCurrentTrack(Player) = pending[1].track
        /\ audio.src = pending[1].track.streamUrl
        /\ ~audio.paused

\* the playIndex calls waiting for the audio context to resume
ResumingCalls ==
    {k \in DOMAIN pending : pending[k].kind = "playIndex" /\ pending[k].stage = "resume"}

\* C23: when the audio context fails to resume for a playIndex call, the error
\* is reported through onError as a failed start is, and the selection stays
C23_ResumeFailureReported ==
    ResumingCalls # {} =>
        LET r == Run(Unresumed(Player))
        IN  /\ Fired(r, "onErrorCatch") \cup Fired(r, "onError") # {}
            /\ r.currentIndex = currentIndex

\* what the code does when the context fails to resume: the calls end, nothing
\* is notified, no start is issued, the selection stays
C23_ResumeFailureSilent ==
    (\E k \in DOMAIN pending : pending[k].stage = "resume") =>
        LET r == Run(Unresumed(Player))
        IN  /\ r.out = <<>>
            /\ r.currentIndex = currentIndex
            /\ \A k \in DOMAIN r.pending : r.pending[k].stage # "resume"

\* C24: playIndex with an index out of range, seek with a non-finite time and
\* setRepeat with an unknown mode fire no notification and issue no Sink
\* command; with an unknown mode stored, the end of a track is handled as with
\* repeat 'none'
C24_InvalidInputIsSilent ==
    /\ \A index \in Indices, allowed \in BOOLEAN :
        ~Valid(index) => Run(playIndex(Host, index, allowed)).out = <<>>
    /\ \A time \in {NaN, Infinity} : Run(seek(Host, time)).out = <<>>
    /\ \A mode \in RepeatInputs \ RepeatModes : Run(setRepeat(Host, mode)).out = <<>>
    /\ (CanEnd /\ repeat \notin RepeatModes) =>
        \A allowed \in BOOLEAN :
            LET off == Run(_handleEnded([AtEnd EXCEPT !.repeat = "none"], allowed))
            IN  Ended(allowed) = [off EXCEPT !.repeat = repeat]

\* C24 witness: the last track ends with an unknown mode stored, and nothing is
\* loaded
C24_Witness ==
    /\ CanEnd
    /\ repeat \notin RepeatModes
    /\ Len(queue) = MaxLen
    /\ currentIndex = Len(queue) - 1
    /\ Fired(Ended(TRUE), "onEnded") # {}
    /\ Fired(Ended(TRUE), "load") = {}

\* max(0, min(1, v)) on the scale of the model
Clamped(v) == IF v < 0 THEN 0 ELSE IF v > VolumeScale THEN VolumeScale ELSE v

\* C25: setVolume(v) stores max(0, min(1, v)) and gives the Sink the stored
\* value, so the stored volume stays within [0, 1]
C25_VolumeIsClamped ==
    /\ 0 <= volume /\ volume <= VolumeScale
    /\ audio.volume = volume
    /\ \A v \in VolumeInputs :
        LET r == Run(setVolume(Host, v))
        IN  /\ r.volume = Clamped(v)
            /\ r.audio.volume = r.volume
            /\ getVolume(r) = Clamped(v)

\* C25 witness: the volume was stepped down to 0 and one more step leaves it there
C25_Witness ==
    /\ volume = 0
    /\ audio.volume = 0
    /\ isPlaying
    /\ Run(setVolume(Host, getVolume(Host) - 1)).volume = 0

C27_SeekMovesOnlyThePosition ==
    /\ \A time \in {NaN, Infinity} : Run(seek(Host, time)) = Host
    /\ Duration(audio) = 0 =>
        \A percent \in Percents : Run(seekPercent(Host, percent)) = Host
    /\ \A t \in Positions :
        LET r == Run(seek(Host, Number(t)))
        IN  /\ r.audio.currentTime = t
            /\ r.out = <<Ev("seek")>>
            /\ [r EXCEPT !.out = <<>>,
                         !.audio.currentTime = audio.currentTime,
                         !.audio.ready = audio.ready] = Host
            /\ r.audio.ready # audio.ready => audio.ready = "ended"

\* C27 witness: a playing track was moved to a later position, and a seek to
\* NaN leaves it there
C27_Witness ==
    /\ isPlaying
    /\ audio.ready = "ready"
    /\ audio.currentTime = PreviousThreshold
    /\ Run(seek(Host, NaN)).audio.currentTime = PreviousThreshold

\* C28: once the analyser exists, getAnalyser() returns the same analyser and
\* creates no second context, whatever has been done in between
C28_AnalyserCreatedOnce ==
    /\ contexts <= 1
    /\ audioContext # "null" =>
        /\ contexts = 1
        /\ analyser = 1
        /\ \A st \in {"null", "running", "suspended"} :
            LET r == Run(getAnalyser(Host, st))
            IN  /\ r.analyser = analyser
                /\ r.contexts = contexts
                /\ r = Host

\* C28 witness: the analyser was created, a track was started since, and the
\* analyser is requested again
C28_Witness ==
    /\ contexts = 1
    /\ analyser = 1
    /\ isPlaying
    /\ currentIndex = 1
    /\ Run(getAnalyser(Host, "running")).analyser = 1

\* C29: no operation of the host changes isPlaying in its own step; pause() only
\* commands the Sink, and isPlaying follows when the element dispatches its
\* play and pause events
C29_IsPlayingFollowsSinkEvents ==
    /\ \A allowed \in BOOLEAN :
        /\ \A index \in Indices : Run(playIndex(Host, index, allowed)).isPlaying = isPlaying
        /\ Run(play(Host, allowed)).isPlaying = isPlaying
        /\ Run(togglePlay(Host, allowed)).isPlaying = isPlaying
        /\ Run(next(Host, allowed)).isPlaying = isPlaying
        /\ Run(previous(Host, allowed)).isPlaying = isPlaying
    /\ Run(stop(Host)).isPlaying = isPlaying
    /\ Run(clearQueue(Host)).isPlaying = isPlaying
    /\ \A tracks \in {<<>>, <<TrackA>>} :
        /\ \A rnd \in RandomDraws(Len(tracks)) :
            Run(setQueue(Host, tracks, rnd)).isPlaying = isPlaying
        /\ \A rnd \in RandomDraws(Len(queue) + Len(tracks)) :
            Run(addToQueue(Host, tracks, rnd)).isPlaying = isPlaying
    /\ \A rnd \in RandomDraws(Len(queue)) : Run(toggleShuffle(Host, rnd)).isPlaying = isPlaying
    /\ \A mode \in RepeatModes : Run(setRepeat(Host, mode)).isPlaying = isPlaying
    /\ LET r == Run(pause(Host))
       IN  /\ r.isPlaying = isPlaying
           /\ r.out = <<Ev("pause")>>
           /\ r.audio.paused
    /\ (tasks # <<>> /\ Head(tasks) = "pause") => ~Dispatched.isPlaying
    /\ (tasks # <<>> /\ Head(tasks) = "play") => Dispatched.isPlaying

\* C29 witness: pause() was called on a playing track and the pause event is
\* next to be dispatched
C29_Witness ==
    /\ isPlaying
    /\ audio.paused
    /\ tasks # <<>>
    /\ Head(tasks) = "pause"
    /\ ~Dispatched.isPlaying

\* C30: with the audio context suspended, playIndex loads the stream URL and
\* play loads nothing, and neither commands the Sink to start before the
\* context has resumed; a call waits for the resumption only while the context
\* is suspended, and the resumption issues its start on whatever the Sink holds
\* by then
C30_ResumeBeforeStart ==
    /\ audioContext = "suspended" =>
        \A allowed \in BOOLEAN :
            /\ \A index \in Indices :
                LET t == At(IF shuffle THEN shuffledQueue ELSE queue, index)
                    r == Run(playIndex(Host, index, allowed))
                IN  /\ Fired(r, "start") = {}
                    /\ (Valid(index) /\ t.streamUrl # "") =>
                        /\ FiredFor(r, "load", t) # {}
                        /\ r.audio.src = t.streamUrl
                        /\ r.pending # <<>>
                        /\ r.pending[Len(r.pending)].stage = "resume"
                        /\ r.pending[Len(r.pending)].track = t
            /\ LET r == Run(play(Host, allowed))
               IN  /\ Fired(r, "start") = {}
                   /\ (currentIndex # -1 \/ queue = <<>>) =>
                       /\ r.out = <<>>
                       /\ Len(r.pending) = Len(pending) + 1
                       /\ r.pending[Len(r.pending)].stage = "resume"
    /\ \A k \in DOMAIN pending :
        pending[k].stage = "resume" =>
            /\ audioContext = "suspended"
            /\ \A allowed \in BOOLEAN :
                LET r == CtxResume(allowed)
                IN  /\ FiredFor(r, "start", pending[k].track) # {}
                    /\ Fired(r, "load") = {}
                    /\ r.audio.src = audio.src

\* C30 witness: playIndex(0) waits for the context to resume while a second
\* playIndex has put another stream URL into the Sink, and the resumption issues
\* the start of the first
C30_Witness ==
    /\ audioContext = "suspended"
    /\ \E k \in ResumingCalls :
        /\ pending[k].track = At(queue, 0)
        /\ pending[k].track.streamUrl # audio.src
        /\ audio.src = At(queue, 1).streamUrl
        /\ audio.src # ""
        /\ FiredFor(CtxResume(TRUE), "start", pending[k].track) # {}

\* the lists addToQueue is applied to: the queue grows to MaxLen + 1 tracks at most
Additions == {t \in TrackLists : Len(queue) + Len(t) <= MaxLen + 1}

C31_AddToQueueKeepsCanonicalTrack ==
    (currentIndex # -1 /\ ~shuffle) =>
        \A tracks \in Additions : \A rnd \in RandomDraws(Len(queue) + Len(tracks)) :
            LET r == Run(addToQueue(Host, tracks, rnd))
            IN  At(getQueue(r), r.currentIndex) = At(queue, currentIndex)

\* the queue operations leave everything but the queue and the selection
Untouched(r) ==
    /\ r.out = <<>>
    /\ r.audio = audio
    /\ r.isPlaying = isPlaying
    /\ r.tasks = tasks
    /\ r.pending = Host.pending

\* C32: setQueue, addToQueue and clearQueue command nothing: the source and
\* position of the Sink and isPlaying stay; on an empty queue play(), and
\* togglePlay() when not playing, load nothing and start the Sink on the source
\* it holds
C32_QueueOperationsLeaveTheSink ==
    /\ Untouched(Run(clearQueue(Host)))
    /\ \A tracks \in {<<>>, <<TrackA>>, <<TrackN, TrackA2>>} :
        /\ \A rnd \in RandomDraws(Len(tracks)) :
            Untouched(Run(setQueue(Host, tracks, rnd)))
        /\ \A rnd \in RandomDraws(Len(queue) + Len(tracks)) :
            Untouched(Run(addToQueue(Host, tracks, rnd)))
    /\ queue = <<>> =>
        /\ currentIndex = -1
        /\ \A allowed \in BOOLEAN :
            LET p == Run(play(Host, allowed))
            IN  /\ Fired(p, "load") = {}
                /\ Fired(p, "start") # {}
                /\ p.audio.src = audio.src
                /\ p.currentIndex = -1
                /\ ~isPlaying => Run(togglePlay(Host, allowed)) = p
                /\ (allowed /\ audio.paused /\ audio.ready = "ready") =>
                    /\ ~p.audio.paused
                    /\ p.audio.currentTime = audio.currentTime

\* C32 witness: the queue was cleared while a track was playing
C32_Witness ==
    /\ isPlaying
    /\ ~audio.paused
    /\ audio.ready = "ready"
    /\ audio.src # ""
    /\ queue = <<>>
    /\ currentIndex = -1

\* the track of the cleared queue was paused, and play() resumes it
C32_PausedWithEmptyQueue ==
    /\ ~isPlaying
    /\ audio.paused
    /\ audio.ready = "ready"
    /\ audio.src # ""
    /\ queue = <<>>
    /\ ~Run(play(Host, TRUE)).audio.paused

\* C33: playIndex(i) of a track without a stream URL selects i and does nothing
\* else: no command, no notification, the Sink and isPlaying as they were
C33_UnplayableTrackIsOnlySelected ==
    \A index \in Indices, allowed \in BOOLEAN :
        LET t == At(IF shuffle THEN shuffledQueue ELSE queue, index)
            r == Run(playIndex(Host, index, allowed))
        IN  (Valid(index) /\ t.streamUrl = "") =>
                /\ r.currentIndex = index
                /\ r = [Host EXCEPT !.currentIndex = index]
                /\ Untouched(r)

\* C33 witness: a track without a stream URL is selected while the track before
\* it plays on
C33_Witness ==
    /\ currentIndex = 1
    /\ At(queue, 1).streamUrl = ""
    /\ At(queue, 0).streamUrl # ""
    /\ audio.src = At(queue, 0).streamUrl
    /\ isPlaying
    /\ ~audio.paused
    /\ pending = <<>>

DistinctIds == \A i, j \in DOMAIN queue : i # j => queue[i].id # queue[j].id

\* C35: in a queue of pairwise different ids, enabling and then disabling
\* shuffle restores the number activeIndex had
C35_ShuffleRoundTripRestoresIndex ==
    (~shuffle /\ DistinctIds) =>
        \A rnd \in RandomDraws(Len(queue)) :
            Run(toggleShuffle(Run(toggleShuffle(Host, rnd)), rnd)).currentIndex = currentIndex

\* C36: toggleShuffle commands nothing and notifies nothing in either
\* direction: the Sink, isPlaying and the canonical ordering stay, and no
\* selection stays no selection
C36_ToggleShuffleLeavesTheSink ==
    \A rnd \in RandomDraws(Len(queue)) :
        LET r == Run(toggleShuffle(Host, rnd))
        IN  /\ r.shuffle = ~shuffle
            /\ Untouched(r)
            /\ r.queue = queue
            /\ r.repeat = repeat
            /\ currentIndex = -1 => r.currentIndex = -1

\* C36 witness: shuffle is switched during playback with nothing selected, the
\* queue having been replaced by one of MaxLen tracks
C36_Witness ==
    /\ shuffle
    /\ isPlaying
    /\ ~audio.paused
    /\ currentIndex = -1
    /\ Len(queue) = MaxLen
    /\ \A rnd \in RandomDraws(Len(queue)) :
        Run(toggleShuffle(Host, rnd)).currentIndex = -1

\* playback has come to rest on the last track
AtRest ==
    /\ currentIndex = Len(queue) - 1
    /\ pending = <<>>
    /\ tasks = <<>>
    /\ ~isPlaying
    /\ audio.paused
    /\ audio.ready = "ended"

\* the track at position k has just been started: its source is loading in an
\* element that is not paused
FreshlyStarted(k) ==
    /\ currentIndex = k
    /\ audio.ready = "loading"
    /\ ~audio.paused
    /\ audio.src = At(getQueue(Player), k).streamUrl

\* the starts commanded by the step r
Starts(r) == Cardinality(Fired(r, "start"))

PlayingThrough == repeat = "none" /\ ~shuffle /\ currentIndex # -1

\* C37: with repeat 'none' and shuffle off, playback left to itself after
\* playIndex(i) comes to rest on the last track and stays there; the selection
\* only moves to the next position, each move starts exactly that track, and
\* the end of the last track starts nothing
C37_PlaysThroughToLastTrack ==
    /\ [](PlayingThrough =>
            /\ currentIndex < Len(queue)
            /\ tasks # <<>> => Starts(Dispatched) = 0
            /\ audio.ready = "loading" => Starts(Run(Loaded)) = 0
            /\ CanEnd =>
                LET r == Ended(TRUE)
                IN  IF currentIndex < Len(queue) - 1
                    THEN /\ r.currentIndex = currentIndex + 1
                         /\ Starts(r) = 1
                         /\ FiredFor(r, "start", At(queue, currentIndex + 1)) # {}
                    ELSE /\ r.currentIndex = currentIndex
                         /\ Starts(r) = 0
                         /\ Fired(r, "load") = {})
    /\ [][PlayingThrough =>
            \/ currentIndex' = currentIndex
            \/ /\ currentIndex' = currentIndex + 1
               /\ audio'.src = At(queue, currentIndex').streamUrl
               /\ audio'.ready = "loading"]_vars
    /\ (PlayingThrough ~> []AtRest)

\* C37 witness: a queue of LibraryLen tracks played from the first position has
\* come to rest on the last
C37_Witness ==
    /\ repeat = "none"
    /\ ~shuffle
    /\ Len(queue) = LibraryLen
    /\ queue[1].streamUrl # queue[LibraryLen].streamUrl
    /\ AtRest
    /\ audio.src = queue[LibraryLen].streamUrl

Cycling == repeat = "all" /\ currentIndex # -1

\* C38: with repeat 'all', playback left to itself after a playIndex never
\* comes to rest: the selection moves from each position of the active ordering
\* to the next and from the last to the first, each move starts that track, and
\* again and again the first position is started and a track plays; so every
\* position is started infinitely often, in cyclic order
C38_RepeatAllCyclesForever ==
    /\ []((Cycling /\ CanEnd) =>
            LET r == Ended(TRUE)
                k == (currentIndex + 1) % Len(queue)
            IN  /\ r.currentIndex = k
                /\ Starts(r) = 1
                /\ FiredFor(r, "start", At(getQueue(Player), k)) # {})
    /\ [][Cycling =>
            \/ currentIndex' = currentIndex
            \/ /\ currentIndex' = (currentIndex + 1) % Len(queue)
               /\ audio'.src = At(getQueue(Player), currentIndex').streamUrl
               /\ audio'.ready = "loading"]_vars
    /\ [](Cycling => <>FreshlyStarted(0))
    /\ [](Cycling => <>(audio.ready = "ready" /\ isPlaying))

\* C38 witness: under repeat 'all' the last track of a queue of LibraryLen
\* tracks has ended and the first is started again
C38_Witness ==
    /\ repeat = "all"
    /\ Len(queue) = LibraryLen
    /\ FreshlyStarted(0)
    /\ audio.src # queue[LibraryLen].streamUrl
    /\ \E k \in DOMAIN pending : pending[k].stage = "start"
    /\ tasks = <<"play">>

\* the play-state-changed notifications of the step r, all and those carrying v
PlayStateNotes(r) ==
    Fired(r, "onPlayStateChange(true)") \cup Fired(r, "onPlayStateChange(false)")

PlayStateNotesOf(r, v) ==
    Fired(r, IF v THEN "onPlayStateChange(true)" ELSE "onPlayStateChange(false)")

LastNote(r) == CHOOSE k \in PlayStateNotes(r) : \A j \in PlayStateNotes(r) : j <= k

\* the steps the Sink can take in this state
SinkSteps ==
    (IF tasks # <<>> THEN {Dispatched} ELSE {})
        \cup (IF CanEnd THEN {Ended(allowed) : allowed \in BOOLEAN} ELSE {})
        \cup (IF audio.ready = "loading" THEN {Run(Loaded), LoadFailed} ELSE {})

\* the steps the host can take in this state
HostSteps ==
    {Run(playIndex(Host, index, allowed)) : index \in Indices, allowed \in BOOLEAN}
        \cup {Run(play(Host, allowed)) : allowed \in BOOLEAN}
        \cup {Run(togglePlay(Host, allowed)) : allowed \in BOOLEAN}
        \cup {Run(next(Host, allowed)) : allowed \in BOOLEAN}
        \cup {Run(previous(Host, allowed)) : allowed \in BOOLEAN}
        \cup {Run(pause(Host)), Run(stop(Host)), Run(clearQueue(Host))}

\* an accepted start of playIndex is still to be announced, and play-state-changed(true)
\* has been delivered or is queued ahead of every fulfilment
StartedInOrder ==
    \A k \in DOMAIN pending :
        (/\ pending[k].kind = "playIndex"
         /\ pending[k].stage \in {"start", "resolving"}
         /\ ~audio.paused) =>
            \/ isPlaying
            \/ \E i \in DOMAIN tasks :
                /\ tasks[i] = "play"
                /\ \A j \in 1..(i - 1) : tasks[j] # "resolve"

\* C39 as stated: play-state-changed fires in exactly the steps that change
\* isPlaying, and carries the new value
C39_PlayStateNotifiedOnChangeOnly ==
    /\ \A r \in SinkSteps \cup HostSteps :
        /\ r.isPlaying # isPlaying <=> PlayStateNotes(r) # {}
        /\ PlayStateNotes(r) # {} => LastNote(r) \in PlayStateNotesOf(r, r.isPlaying)
    /\ StartedInOrder

\* C39: every change of isPlaying is notified with the new value, and every
\* play-state-changed carries the value isPlaying has after it, so the value
\* last delivered is isPlaying; it fires for every play and pause event of the
\* Sink, also when isPlaying already has that value, and in no step of the
\* host; play-state-changed(true) precedes track-changed
C39_PlayStateNotifiedOnEveryEvent ==
    /\ \A r \in SinkSteps \cup HostSteps :
        /\ r.isPlaying # isPlaying => PlayStateNotes(r) # {}
        /\ PlayStateNotes(r) # {} => LastNote(r) \in PlayStateNotesOf(r, r.isPlaying)
    /\ \A r \in HostSteps : PlayStateNotes(r) = {}
    /\ (tasks # <<>> /\ Head(tasks) \in {"play", "pause"}) =>
        PlayStateNotesOf(Dispatched, Head(tasks) = "play") # {}
    /\ StartedInOrder

\* C39 witness: a track is started while another plays, and the play event of
\* the new start delivers play-state-changed(true) once more
C39_Witness ==
    /\ isPlaying
    /\ tasks # <<>>
    /\ Head(tasks) = "play"
    /\ currentIndex = 1
    /\ audio.src = At(queue, 1).streamUrl
    /\ PlayStateNotesOf(Dispatched, TRUE) # {}
    /\ Dispatched.isPlaying

====
